---- MODULE Spec2Model ----
(***************************************************************************)
(* Model of streams-bot.py: the StreamsSync cog that polls an API for the  *)
(* live streams and reconciles them with the announcement messages of one  *)
(* Discord channel.                                                        *)
(*                                                                         *)
(* Python strings whose characters matter (user names, author names, game  *)
(* and status texts) are sequences of one-character strings.  URLs are     *)
(* only ever compared for equality and are atoms.  None is a value that    *)
(* equals no string.                                                       *)
(***************************************************************************)
EXTENDS Integers, Sequences, FiniteSets, TLC

VARIABLES
    ready,          \* the bot has signalled ready (wait_until_ready returns)
    task,           \* state of the tasks.loop around syncer
    pc,             \* position inside the running syncer iteration
    channel,        \* the channel's messages, oldest first
    nextId,         \* id the platform gives the next created message
    records,        \* syncer's local `records` (insertion-ordered dict)
    messages,       \* syncer's local `messages` (insertion-ordered dict)
    ri,             \* position of the `for ... in records.items()` loop
    si,             \* position of the final `for ... in messages.items()` loop
    ops,            \* platform writes issued by the current iteration
    outcome,        \* how the latest iteration ended
    cycles,         \* iterations started so far
    startChannel,   \* the channel when the current iteration started
    scanned,        \* what get_stream_messages returned in this iteration
    prevCompleted,  \* the iteration before the current one ran to its end
    prevRecords,    \* the records of that iteration, if it did
    lookup,         \* what bot.get_channel gave the current iteration
    respClass,      \* what the API call of the current iteration met
    changed         \* what the latest call of contents_changed returned

vars == <<ready, task, pc, channel, nextId, records, messages, ri, si,
          ops, outcome, cycles, startChannel, scanned, prevCompleted, prevRecords,
          lookup, respClass, changed>>

(***************************************************************************)
(* Bounds of the model.                                                    *)
(***************************************************************************)
MaxInitMsgs == 2    \* messages of a short initial channel
MaxBody     == 2    \* elements in one API response
MaxCycles   == 2    \* iterations of the loop that are explored
MaxFields   == 2    \* fields of the embed contents_changed is applied to

(***************************************************************************)
(* Strings.                                                                *)
(***************************************************************************)
None == <<"None">>                    \* Python None / Embed.Empty
Whitespace == {" "}

EMBED_COLOR == 6570405                \* 0x6441A5
AUTHOR_SUFFIX == <<"i","s"," ","s","p","e","l","u","n","k","i","n","g","!">>

\* str.endswith
EndsWith(s, suffix) ==
    /\ Len(s) >= Len(suffix)
    /\ SubSeq(s, Len(s) - Len(suffix) + 1, Len(s)) = suffix

\* str.strip(): drop leading and trailing whitespace
RECURSIVE LStrip(_)
LStrip(s) == IF s # <<>> /\ Head(s) \in Whitespace THEN LStrip(Tail(s)) ELSE s

RECURSIVE RStrip(_)
RStrip(s) ==
    IF s # <<>> /\ s[Len(s)] \in Whitespace
    THEN RStrip(SubSeq(s, 1, Len(s) - 1)) ELSE s

Strip(s) == RStrip(LStrip(s))

(***************************************************************************)
(* Insertion-ordered dicts: sequences of [key, value] with distinct keys.  *)
(***************************************************************************)
HasKey(d, k) == \E i \in 1..Len(d) : d[i].key = k

DictGet(d, k) ==
    IF HasKey(d, k)
    THEN d[CHOOSE i \in 1..Len(d) : d[i].key = k].value
    ELSE None

\* d[k] = v: a present key keeps its position
DictPut(d, k, v) ==
    IF HasKey(d, k)
    THEN [i \in 1..Len(d) |-> IF d[i].key = k THEN [key |-> k, value |-> v] ELSE d[i]]
    ELSE Append(d, [key |-> k, value |-> v])

\* d.pop(k, None)
DictPop(d, k) == SelectSeq(d, LAMBDA e : e.key # k)

Keys(d) == {d[i].key : i \in 1..Len(d)}

(***************************************************************************)
(* StreamRecord and its rendering.                                         *)
(***************************************************************************)
RequiredFields == {"username", "twitch", "id", "logo", "url", "status", "game"}

\* to_embed with the author line formed without the space before the suffix
to_embed_NoSpace(record) ==
    [ title       |-> record.url,
      url         |-> record.url,
      color       |-> EMBED_COLOR,
      author_name |-> record.username \o AUTHOR_SUFFIX,
      author_url  |-> record.url,
      thumbnail   |-> record.logo,
      fields      |-> << [name |-> "Game", value |-> record.game],
                         [name |-> "Stream Title", value |-> record.status] >> ]

\* to_embed with the values of the two fields exchanged
to_embed_FieldsSwapped(record) ==
    [ title       |-> record.url,
      url         |-> record.url,
      color       |-> EMBED_COLOR,
      author_name |-> record.username \o <<" ">> \o AUTHOR_SUFFIX,
      author_url  |-> record.url,
      thumbnail   |-> record.logo,
      fields      |-> << [name |-> "Game", value |-> record.status],
                         [name |-> "Stream Title", value |-> record.game] >> ]

\* StreamRecord.to_embed
to_embed(record) ==
    [ title       |-> record.url,
      url         |-> record.url,
      color       |-> EMBED_COLOR,
      author_name |-> record.username \o <<" ">> \o AUTHOR_SUFFIX,
      author_url  |-> record.url,
      thumbnail   |-> record.logo,
      fields      |-> << [name |-> "Game", value |-> record.game],
                         [name |-> "Stream Title", value |-> record.status] >> ]

\* the `fields` dict contents_changed builds from message.embeds[0].fields
RECURSIVE FieldsDict(_)
FieldsDict(fields) ==
    IF fields = <<>> THEN <<>>
    ELSE DictPut(FieldsDict(SubSeq(fields, 1, Len(fields) - 1)),
                 fields[Len(fields)].name, fields[Len(fields)].value)

\* contents_changed without its test of the status
contents_changed_GameOnly(record, message) ==
    LET fields == FieldsDict(message.embeds[1].fields) IN
    IF Strip(record.game) # DictGet(fields, "Game") THEN TRUE
    ELSE FALSE

\* contents_changed without the strip of the record's side
contents_changed_NoStrip(record, message) ==
    LET fields == FieldsDict(message.embeds[1].fields) IN
    IF record.game # DictGet(fields, "Game") THEN TRUE
    ELSE IF record.status # DictGet(fields, "Stream Title") THEN TRUE
    ELSE FALSE

\* StreamsSync.contents_changed
contents_changed(record, message) ==
    LET fields == FieldsDict(message.embeds[1].fields) IN
    IF Strip(record.game) # DictGet(fields, "Game") THEN TRUE
    ELSE IF Strip(record.status) # DictGet(fields, "Stream Title") THEN TRUE
    ELSE FALSE

(***************************************************************************)
(* The API response and get_streams_from_api.                              *)
(***************************************************************************)
Rec(url, username, game, status) ==
    [ username |-> username, twitch |-> "t", id |-> "1", logo |-> "logo",
      url |-> url, status |-> status, game |-> game ]

\* elements a JSON array of the API may hold
WellFormedElems ==
    { Rec("u1", <<"a">>, <<"G">>, <<"S">>),
      Rec("u1", <<"a">>, <<"G","2">>, <<"S">>),
      Rec("u1", <<"a">>, <<" ","G"," ">>, <<"S">>),
      Rec("u2", <<>>, <<"G">>, <<"S">>) }

MissingFieldElem ==
    [ username |-> <<"a">>, twitch |-> "t", id |-> "1", logo |-> "logo",
      url |-> "u1", status |-> <<"S">> ]

ExtraFieldElem ==
    [ username |-> <<"a">>, twitch |-> "t", id |-> "1", logo |-> "logo",
      url |-> "u1", status |-> <<"S">>, game |-> <<"G">>, viewers |-> "3" ]

ApiElems == WellFormedElems \cup {MissingFieldElem, ExtraFieldElem}

Bodies == UNION { [1..n -> ApiElems] : n \in 0..MaxBody }

\* what session.get can end in: a response with a status and a JSON array,
\* or an aiohttp.ClientError
ApiResponses ==
    [kind : {"response"}, status : {200}, body : Bodies]
        \cup {[kind |-> "response", status |-> 500, body |-> <<>>],
              [kind |-> "network_error", status |-> 0, body |-> <<>>]}

\* StreamRecord(**stream): TypeError unless the keys are exactly the fields
ParsesOk(stream) == DOMAIN stream = RequiredFields

\* the `for stream in data` loop, for a body all of whose elements parse
RECURSIVE BuildRecords(_)
BuildRecords(data) ==
    IF data = <<>> THEN <<>>
    ELSE DictPut(BuildRecords(SubSeq(data, 1, Len(data) - 1)),
                 data[Len(data)].url, data[Len(data)])

\* get_streams_from_api without the status test: the body of any response is
\* parsed (an error response carries no streams)
get_streams_from_api_NoStatusTest(resp) ==
    IF resp.kind = "network_error"
    THEN [result |-> "network_error", records |-> <<>>]
    ELSE IF \E i \in 1..Len(resp.body) : ~ParsesOk(resp.body[i])
    THEN [result |-> "type_error", records |-> <<>>]
    ELSE [result |-> "ok", records |-> BuildRecords(resp.body)]

\* get_streams_from_api: result "none" is the bare return, "type_error" and
\* "network_error" are the exceptions it lets through
get_streams_from_api(resp) ==
    IF resp.kind = "network_error"
    THEN [result |-> "network_error", records |-> <<>>]
    ELSE IF resp.status # 200
    THEN [result |-> "none", records |-> <<>>]
    ELSE IF \E i \in 1..Len(resp.body) : ~ParsesOk(resp.body[i])
    THEN [result |-> "type_error", records |-> <<>>]
    ELSE [result |-> "ok", records |-> BuildRecords(resp.body)]

\* what a response is, whatever the code makes of it
Classify(resp) ==
    IF resp.kind = "network_error" THEN "network_error"
    ELSE IF resp.status # 200 THEN "bad_status"
    ELSE IF \E i \in 1..Len(resp.body) : DOMAIN resp.body[i] # RequiredFields
              /\ ~(RequiredFields \subseteq DOMAIN resp.body[i])
    THEN "missing_field"
    ELSE IF \E i \in 1..Len(resp.body) : DOMAIN resp.body[i] # RequiredFields
    THEN "extra_field"
    ELSE "well_formed"

\* every way the call can end, over the responses of the model
FetchResults ==
    { [class |-> Classify(resp), got |-> get_streams_from_api(resp)] :
        resp \in ApiResponses }

(***************************************************************************)
(* The channel and get_stream_messages.                                    *)
(***************************************************************************)
HistoryLimit == 100    \* channel.history() is called with its default limit

Msg(author, embeds) == [id |-> 0, author |-> author, embeds |-> embeds]

Announcement == Msg("bot", <<to_embed(Rec("u1", <<"a">>, <<"G">>, <<"S">>))>>)

\* an embed whose author name lacks the suffix (no "!" at the end)
NoSuffixEmbed ==
    [to_embed(Rec("u1", <<"a">>, <<"G">>, <<"S">>)) EXCEPT
        !.author_name = <<"a"," ","i","s"," ","s","p","e","l","u","n","k","i","n","g">>]

\* an embed with no author set
NoAuthorEmbed ==
    [to_embed(Rec("u1", <<"a">>, <<"G">>, <<"S">>)) EXCEPT
        !.author_name = None, !.author_url = "Empty"]

MsgTemplates ==
    { Announcement,
      Msg("bot", <<to_embed(Rec("u2", <<>>, <<"G">>, <<"S">>))>>),
      Msg("other", <<to_embed(Rec("u1", <<"a">>, <<"G">>, <<"S">>))>>),
      Msg("bot", <<>>),
      Msg("bot", <<NoSuffixEmbed>>),
      Msg("bot", <<NoAuthorEmbed>>) }

Filler == Msg("other", <<>>)

\* the platform numbers the messages in the order they were posted
Numbered(msgs) == [i \in 1..Len(msgs) |-> [msgs[i] EXCEPT !.id = i]]

\* a short channel; a channel with three announcements of one stream; a long
\* channel: one message and HistoryLimit newer ones
InitChannels ==
    { Numbered(recent) :
        recent \in UNION { [1..n -> MsgTemplates] : n \in 0..MaxInitMsgs } }
    \cup
    { Numbered(<<Announcement, Announcement, Announcement>>) }
    \cup
    { Numbered(<<old>> \o [i \in 1..HistoryLimit |-> Filler]) :
        old \in MsgTemplates }

\* channel.history(): the newest HistoryLimit messages, newest first
History(ch) ==
    LET n == IF Len(ch) < HistoryLimit THEN Len(ch) ELSE HistoryLimit
    IN  [i \in 1..n |-> ch[Len(ch) - i + 1]]

Write(by, op, target, url, embed, ok) ==
    [by |-> by, op |-> op, target |-> target, url |-> url, embed |-> embed,
     ok |-> ok]

\* the scan loop without its test of the author
Skipped_AnyAuthor(msg) == Len(msg.embeds) # 1

\* the first two tests of the scan loop: `continue` on another author's
\* message and on a message that has not exactly one embed
Skipped(msg) == msg.author # "bot" \/ Len(msg.embeds) # 1

\* the scan loop keeping the message it met first: the delete goes to the
\* message at hand and the dict keeps its entry
Collapse_KeepFirst(acc, author_url, msg, ok) ==
    LET w == Write("scan", "delete", msg.id, author_url, None, ok)
    IN  IF ok
        THEN [acc EXCEPT !.writes = Append(@, w)]
        ELSE [acc EXCEPT !.writes = Append(@, w), !.error = "write_rejected"]

\* the scan loop without the delete of the message it replaces in the dict
Collapse_NoDelete(acc, author_url, msg, ok) ==
    [acc EXCEPT !.messages = DictPut(@, author_url, msg)]

\* `if author_url in messages: await messages[author_url].delete()` and the
\* assignment after it, for a delete the platform accepts (ok) or rejects
Collapse(acc, author_url, msg, ok) ==
    LET w == Write("scan", "delete", DictGet(acc.messages, author_url).id,
                   author_url, None, ok)
    IN  IF ok
        THEN [acc EXCEPT !.writes = Append(@, w),
                         !.messages = DictPut(@, author_url, msg)]
        ELSE [acc EXCEPT !.writes = Append(@, w), !.error = "write_rejected"]

\* the body of the scan loop for a message that is not skipped; acc holds the
\* dict, the deletes issued and the exception raised, if any.  The
\* rejectAt-th delete is rejected by the platform (0: none is).
ScanStep(acc, msg, rejectAt) ==
    LET author_name == msg.embeds[1].author_name IN
    IF author_name = None
    THEN [acc EXCEPT !.error = "attribute_error"]     \* None has no endswith
    ELSE IF ~EndsWith(author_name, <<" ">> \o AUTHOR_SUFFIX)
    THEN acc
    ELSE LET author_url == msg.embeds[1].author_url IN
         IF HasKey(acc.messages, author_url)
         THEN Collapse(acc, author_url, msg, Len(acc.writes) + 1 # rejectAt)
         ELSE [acc EXCEPT !.messages = DictPut(@, author_url, msg)]

\* the `async for msg in channel.history()` loop over the messages it does
\* not skip, from position i on
RECURSIVE ScanLoop(_, _, _, _)
ScanLoop(hist, i, acc, rejectAt) ==
    IF i > Len(hist) \/ acc.error # "none" THEN acc
    ELSE ScanLoop(hist, i + 1, ScanStep(acc, hist[i], rejectAt), rejectAt)

\* StreamsSync.get_stream_messages
get_stream_messages(ch, rejectAt) ==
    ScanLoop(SelectSeq(History(ch), LAMBDA m : ~Skipped(m)), 1,
             [messages |-> <<>>, writes |-> <<>>, error |-> "none"], rejectAt)

\* the channel after the platform carried out the accepted deletes
Deleted(writes) == { writes[i].target : i \in { j \in 1..Len(writes) :
                        writes[j].op = "delete" /\ writes[j].ok } }

Without(ch, ids) == SelectSeq(ch, LAMBDA m : m.id \notin ids)

(***************************************************************************)
(* The platform's writes.                                                  *)
(***************************************************************************)
\* channel.send(embed=e): the platform appends a message by the bot
Sent(ch, id, embed) == Append(ch, [id |-> id, author |-> "bot", embeds |-> <<embed>>])

\* channel.edit(embed=e): the call goes to the TextChannel, whose edit takes
\* channel settings only; no message of the channel is touched
ChannelEdited(ch, message, embed) == ch

\* message.delete()
MessageDeleted(ch, message) == Without(ch, {message.id})

(***************************************************************************)
(* The loop task and the syncer iteration.                                 *)
(***************************************************************************)
ChannelLookups == {"text", "none", "voice"}   \* what bot.get_channel gives

\* the cog is constructed: the loop task is started and waits in before_syncer
InitIn(channels) ==
    /\ ready = FALSE
    /\ task = "before_loop"
    /\ pc = "idle"
    /\ channel \in channels
    /\ nextId = Len(channel) + 1
    /\ records = <<>>
    /\ messages = <<>>
    /\ ri = 1
    /\ si = 1
    /\ ops = <<>>
    /\ outcome = "none"
    /\ cycles = 0
    /\ startChannel = channel
    /\ scanned = <<>>
    /\ prevCompleted = FALSE
    /\ prevRecords = <<>>
    /\ lookup = "unset"
    /\ respClass = "unset"
    /\ changed = FALSE

Init == InitIn(InitChannels)

\* the platform signals that the connection is ready
BotReady ==
    /\ ~ready
    /\ ready' = TRUE
    /\ UNCHANGED <<task, pc, channel, nextId, records, messages, ri, si, ops,
                   outcome, cycles, startChannel, scanned, prevCompleted,
                   prevRecords, lookup, respClass, changed>>

\* before_syncer without the wait for the ready signal
before_syncer_NoWait ==
    /\ task = "before_loop"
    /\ task' = "sleeping"
    /\ UNCHANGED <<ready, pc, channel, nextId, records, messages, ri, si, ops,
                   outcome, cycles, startChannel, scanned, prevCompleted,
                   prevRecords, lookup, respClass, changed>>

\* before_syncer: wait_until_ready returns, the loop goes on to its iterations
before_syncer ==
    /\ task = "before_loop"
    /\ ready
    /\ task' = "sleeping"
    /\ UNCHANGED <<ready, pc, channel, nextId, records, messages, ri, si, ops,
                   outcome, cycles, startChannel, scanned, prevCompleted,
                   prevRecords, lookup, respClass, changed>>

\* a loop that any iteration which does not run to its end brings down
TaskAfter_AbortStops(how) ==
    IF how \in {"completed", "running"} THEN "sleeping" ELSE "failed"

\* the iteration returns or raises: how the loop task goes on.  A return and
\* an aiohttp.ClientError leave the loop running, any other exception ends it.
TaskAfter(how) ==
    IF how \in {"parse_error", "scan_error", "write_rejected"}
    THEN "failed" ELSE "sleeping"

\* the two guards after the channel lookup
LookupOutcome(found) ==
    CASE found = "none"  -> "no_channel"
      [] found = "voice" -> "not_text"
      [] OTHER           -> "running"

\* the guard after the API call and the exceptions of the call
FetchOutcome(result) ==
    CASE result = "none"          -> "api_failed"
      [] result = "network_error" -> "network_error"
      [] result = "type_error"    -> "parse_error"
      [] OTHER                    -> "running"

\* a loop that starts an iteration whenever its period has passed
MayStart_OnTimer(t) == t \in {"sleeping", "running"}

\* tasks.loop calls syncer again only after the call before has returned and
\* the rest of the period has been slept
MayStart(t) == t = "sleeping"

\* syncer, up to the first await: the channel lookup and its two guards
SyncerBegin ==
    /\ MayStart(task)
    /\ cycles < MaxCycles
    /\ \E found \in ChannelLookups :
         /\ lookup' = found
         /\ outcome' = LookupOutcome(found)
         /\ task' = IF outcome' = "running" THEN "running" ELSE TaskAfter(outcome')
         /\ pc' = IF outcome' = "running" THEN "fetch" ELSE "idle"
    /\ cycles' = cycles + 1
    /\ prevCompleted' = (outcome = "completed")
    /\ prevRecords' = IF outcome = "completed" THEN records ELSE <<>>
    /\ startChannel' = channel
    /\ records' = <<>>
    /\ messages' = <<>>
    /\ scanned' = <<>>
    /\ ri' = 1
    /\ si' = 1
    /\ ops' = <<>>
    /\ respClass' = "unset"
    /\ changed' = FALSE
    /\ UNCHANGED <<ready, channel, nextId>>

\* an iteration that goes on after a write the platform rejected
Ends_RejectionIgnored(how) ==
    IF how = "write_rejected"
    THEN UNCHANGED <<outcome, task, pc>>
    ELSE /\ outcome' = how
         /\ task' = TaskAfter(how)
         /\ pc' = "idle"

\* the iteration ends: by a return (how = "completed", "api_failed") or by an
\* exception
Ends(how) ==
    /\ outcome' = how
    /\ task' = TaskAfter(how)
    /\ pc' = "idle"

\* syncer without its final loop
PcAfterRecords_NoFinalLoop(recs, i, msgs) ==
    IF i <= Len(recs) THEN "records" ELSE "done"

\* where syncer is once the loop over recs is at position i with dict msgs:
\* in that loop, in the final loop over msgs, or at its end
PcAfterRecords(recs, i, msgs) ==
    IF i <= Len(recs) THEN "records"
    ELSE IF msgs # <<>> THEN "stale"
    ELSE "done"

AfterRecords(recs, i, msgs) ==
    /\ ri' = i
    /\ si' = 1
    /\ IF PcAfterRecords(recs, i, msgs) = "done"
       THEN Ends("completed")
       ELSE /\ pc' = PcAfterRecords(recs, i, msgs)
            /\ UNCHANGED <<task, outcome>>

\* records = await self.get_streams_from_api() and the None guard
Fetch ==
    /\ pc = "fetch"
    /\ \E fetched \in FetchResults :
         /\ respClass' = fetched.class
         /\ records' = fetched.got.records
         /\ IF FetchOutcome(fetched.got.result) = "running"
            THEN /\ pc' = "scan"
                 /\ UNCHANGED <<task, outcome>>
            ELSE Ends(FetchOutcome(fetched.got.result))
    /\ UNCHANGED <<ready, channel, nextId, messages, ri, si, ops, cycles,
                   startChannel, scanned, prevCompleted, prevRecords, lookup,
                   changed>>

\* messages = await self.get_stream_messages(channel)
Scan ==
    /\ pc = "scan"
    /\ \E rejectAt \in 0..Len(get_stream_messages(channel, 0).writes) :
         LET got == get_stream_messages(channel, rejectAt) IN
         /\ ops' = ops \o got.writes
         /\ channel' = Without(channel, Deleted(got.writes))
         /\ IF got.error = "none"
            THEN /\ messages' = got.messages
                 /\ scanned' = got.messages
                 /\ AfterRecords(records, 1, got.messages)
            ELSE /\ messages' = <<>>
                 /\ scanned' = <<>>
                 /\ Ends(IF got.error = "attribute_error"
                         THEN "scan_error" ELSE "write_rejected")
                 /\ UNCHANGED <<ri, si>>
    /\ UNCHANGED <<ready, nextId, records, cycles, startChannel, prevCompleted,
                   prevRecords, lookup, respClass, changed>>

\* one pass of `for twitch_name, record in records.items()`
RecordStep ==
    /\ pc = "records"
    /\ LET twitch_name == records[ri].key
           record      == records[ri].value
       IN  \E ok \in BOOLEAN :
           IF ~HasKey(messages, twitch_name) THEN
               /\ ops' = Append(ops, Write("syncer", "create", nextId, twitch_name,
                                           to_embed(record), ok))
               /\ UNCHANGED changed
               /\ IF ok
                  THEN /\ channel' = Sent(channel, nextId, to_embed(record))
                       /\ nextId' = nextId + 1
                       /\ messages' = DictPop(messages, twitch_name)
                       /\ AfterRecords(records, ri + 1, messages')
                  ELSE /\ Ends("write_rejected")
                       /\ UNCHANGED <<channel, nextId, messages, ri, si>>
           ELSE IF contents_changed(record, DictGet(messages, twitch_name)) THEN
               /\ ops' = Append(ops, Write("syncer", "channel_edit", 0, twitch_name,
                                           to_embed(record), ok))
               /\ changed' = TRUE
               /\ IF ok
                  THEN /\ channel' = ChannelEdited(channel,
                                        DictGet(messages, twitch_name),
                                        to_embed(record))
                       /\ messages' = DictPop(messages, twitch_name)
                       /\ AfterRecords(records, ri + 1, messages')
                       /\ UNCHANGED nextId
                  ELSE /\ Ends("write_rejected")
                       /\ UNCHANGED <<channel, nextId, messages, ri, si>>
           ELSE
               /\ ok
               /\ changed' = FALSE
               /\ messages' = DictPop(messages, twitch_name)
               /\ AfterRecords(records, ri + 1, messages')
               /\ UNCHANGED <<channel, nextId, ops>>
    /\ UNCHANGED <<ready, records, cycles, startChannel, scanned, prevCompleted,
                   prevRecords, lookup, respClass>>

\* one pass of the final `for twitch_name, message in messages.items()`
StaleStep ==
    /\ pc = "stale"
    /\ LET twitch_name == messages[si].key
           message     == messages[si].value
       IN  \E ok \in BOOLEAN :
           /\ ops' = Append(ops, Write("syncer", "delete", message.id, twitch_name,
                                       None, ok))
           /\ IF ok
              THEN /\ channel' = MessageDeleted(channel, message)
                   /\ si' = si + 1
                   /\ IF si' <= Len(messages)
                      THEN UNCHANGED <<pc, task, outcome>>
                      ELSE Ends("completed")
              ELSE /\ Ends("write_rejected")
                   /\ UNCHANGED <<channel, si>>
    /\ UNCHANGED <<ready, nextId, records, messages, ri, cycles, startChannel,
                   scanned, prevCompleted, prevRecords, lookup, respClass,
                   changed>>

Next ==
    \/ BotReady
    \/ before_syncer
    \/ SyncerBegin
    \/ Fetch
    \/ Scan
    \/ RecordStep
    \/ StaleStep

Spec == Init /\ [][Next]_vars

\* The loop task under its scheduling: the loop's timer fires and every await
\* of an iteration returns.  The channel starts with at most one message.
FairInit ==
    InitIn({ Numbered(recent) :
               recent \in {<<>>} \cup { <<m>> : m \in MsgTemplates } })

FairSpec ==
    /\ FairInit
    /\ [][Next]_vars
    /\ WF_vars(before_syncer)
    /\ WF_vars(SyncerBegin)
    /\ WF_vars(Fetch)
    /\ WF_vars(Scan)
    /\ WF_vars(RecordStep)
    /\ WF_vars(StaleStep)

(***************************************************************************)
(* contents_changed on its own: a record and a message with one embed,     *)
(* drawn from bounded sets, and one call.                                  *)
(***************************************************************************)
Texts == { <<>>, <<" ">>, <<"G">>, <<" ","G"," ">> }

FieldLists ==
    UNION { [1..n -> [name : {"Game", "Stream Title"}, value : Texts]] :
              n \in 0..MaxFields }

CompareInit ==
    /\ \E game \in Texts, status \in Texts :
         records = << [key |-> "u1", value |-> Rec("u1", <<"a">>, game, status)] >>
    /\ \E fields \in FieldLists :
         messages = << [key |-> "u1",
                        value |-> [id |-> 1, author |-> "bot",
                                   embeds |-> << [Announcement.embeds[1] EXCEPT
                                                    !.fields = fields] >>]] >>
    /\ pc = "compare"
    /\ changed = FALSE
    /\ ready = FALSE
    /\ task = "before_loop"
    /\ channel = <<>>
    /\ nextId = 1
    /\ ri = 1
    /\ si = 1
    /\ ops = <<>>
    /\ outcome = "none"
    /\ cycles = 0
    /\ startChannel = <<>>
    /\ scanned = <<>>
    /\ prevCompleted = FALSE
    /\ prevRecords = <<>>
    /\ lookup = "unset"
    /\ respClass = "unset"

\* self.contents_changed(record, messages[twitch_name])
CompareCall ==
    /\ pc = "compare"
    /\ changed' = contents_changed(records[1].value, messages[1].value)
    /\ pc' = "compared"
    /\ UNCHANGED <<ready, task, channel, nextId, records, messages, ri, si, ops,
                   outcome, cycles, startChannel, scanned, prevCompleted,
                   prevRecords, lookup, respClass>>

CompareSpec == CompareInit /\ [][CompareCall]_vars

(***************************************************************************)
(* Properties.                                                             *)
(***************************************************************************)
\* an announcement message: by the bot, one embed, author name with the suffix
IsAnnouncement(m) ==
    /\ m.author = "bot"
    /\ Len(m.embeds) = 1
    /\ m.embeds[1].author_name # None
    /\ EndsWith(m.embeds[1].author_name, <<" ">> \o AUTHOR_SUFFIX)

\* the positions of the announcements of stream u in ch
AnnouncementsFor(ch, u) ==
    { i \in 1..Len(ch) : IsAnnouncement(ch[i]) /\ ch[i].embeds[1].author_url = u }

Ids(ch) == { ch[i].id : i \in 1..Len(ch) }

\* the writes of the current iteration that name stream u
OpsFor(u) == SelectSeq(ops, LAMBDA w : w.url = u)

\* C1: after an iteration that ran to its end without a failure, every
\* fetched URL has exactly one announcement in the channel and every
\* announcement in the channel is for a fetched URL.
C1_OneToOne ==
    outcome = "completed" =>
        /\ \A u \in Keys(records) : Cardinality(AnnouncementsFor(channel, u)) = 1
        /\ \A i \in 1..Len(channel) :
             IsAnnouncement(channel[i]) =>
                 channel[i].embeds[1].author_url \in Keys(records)

\* C2: when two consecutive iterations ran to their end with the same
\* records, the second one issued no write.
C2_Idempotent ==
    (outcome = "completed" /\ prevCompleted /\ prevRecords = records) => ops = <<>>

\* C3: in an iteration whose API call met a status other than 200, a network
\* failure or an element with a missing field, no write is issued and the
\* channel stays what it was when the iteration started.
C3_FetchFailureNoWrites ==
    respClass \in {"bad_status", "network_error", "missing_field"} =>
        (ops = <<>> /\ channel = startChannel)

\* an iteration ended by an element with a missing field, in a channel where
\* the scan would have deleted a duplicate
C3_Witness ==
    /\ respClass = "missing_field"
    /\ pc = "idle"
    /\ get_stream_messages(startChannel, 0).writes # <<>>

\* C4: after an iteration that ran to its end, every record whose URL was in
\* the scanned mapping and whose contents had changed got exactly one edit of
\* its message, which now carries the rendering of the record, and no create
\* and no delete.
C4_EditApplied ==
    outcome = "completed" =>
        \A i \in 1..Len(records) :
            LET u == records[i].key
                r == records[i].value
                m == DictGet(scanned, u)
                w == SelectSeq(ops, LAMBDA x : x.url = u /\ x.by = "syncer")
            IN  (HasKey(scanned, u) /\ contents_changed(r, m)) =>
                    /\ Len(w) = 1
                    /\ w[1].op = "edit"
                    /\ w[1].target = m.id
                    /\ \E j \in 1..Len(channel) :
                         channel[j].id = m.id /\ channel[j].embeds = <<to_embed(r)>>

\* C5: once the records loop has passed a record whose URL was not in the
\* scanned mapping, the iteration has issued exactly one write for that URL:
\* a create whose payload has the URL as title and author link, the record's
\* game as Game and its status as Stream Title; the message is in the channel.
C5_Creation ==
    \A i \in 1..Len(records) :
        LET u == records[i].key
            r == records[i].value
        IN  (i < ri /\ ~HasKey(scanned, u)) =>
                /\ Len(OpsFor(u)) = 1
                /\ OpsFor(u)[1].op = "create"
                /\ OpsFor(u)[1].embed.title = r.url
                /\ OpsFor(u)[1].embed.author_url = r.url
                /\ DictGet(FieldsDict(OpsFor(u)[1].embed.fields), "Game") = r.game
                /\ DictGet(FieldsDict(OpsFor(u)[1].embed.fields), "Stream Title")
                       = r.status
                /\ \E j \in 1..Len(channel) :
                     /\ channel[j].id = OpsFor(u)[1].target
                     /\ channel[j].embeds = <<OpsFor(u)[1].embed>>

\* an iteration ran to its end and created the messages of two records
C5_Witness ==
    /\ outcome = "completed"
    /\ Len(records) = 2
    /\ scanned = <<>>

\* C6: after an iteration that ran to its end, every message the scan
\* returned whose URL is not among the records has been deleted exactly once
\* and is gone from the channel, and the loops of syncer issued no other write
\* for that URL.
C6_Removal ==
    outcome = "completed" =>
        \A j \in 1..Len(scanned) :
            LET u == scanned[j].key
                m == scanned[j].value
            IN  ~HasKey(records, u) =>
                    /\ Cardinality({ k \in 1..Len(ops) :
                           ops[k].op = "delete" /\ ops[k].target = m.id }) = 1
                    /\ \A k \in 1..Len(ops) :
                           (ops[k].url = u /\ ops[k].by = "syncer") =>
                               (ops[k].op = "delete" /\ ops[k].target = m.id)
                    /\ m.id \notin Ids(channel)

\* an iteration with an empty fetched array ran to its end and the scan had
\* returned two messages
C6_Witness ==
    /\ outcome = "completed"
    /\ records = <<>>
    /\ Len(scanned) = 2

\* the scan of the current iteration has returned
ScanReturned == pc \in {"records", "stale"} \/ outcome = "completed"

\* the number of announcements of stream u the scan met
Met(u) == Cardinality(AnnouncementsFor(History(startChannel), u))

ScanDeletes(u) == { k \in 1..Len(ops) : ops[k].by = "scan" /\ ops[k].url = u }

\* C7: when the scan met k >= 2 announcements of one URL it deleted exactly
\* k - 1 of them, each once, and returned exactly one entry for the URL, whose
\* message is one of the k and was not deleted.
C7_DuplicateCollapsing ==
    ScanReturned =>
        \A u \in {"u1", "u2", "Empty"} :
            Met(u) >= 2 =>
                LET hist == History(startChannel)
                    met  == { hist[i].id : i \in AnnouncementsFor(hist, u) }
                    gone == { ops[k].target : k \in ScanDeletes(u) }
                IN  /\ Cardinality(ScanDeletes(u)) = Met(u) - 1
                    /\ Cardinality(gone) = Met(u) - 1
                    /\ gone \subseteq met
                    /\ \A k \in ScanDeletes(u) : ops[k].op = "delete" /\ ops[k].ok
                    /\ gone \cap Ids(channel) = {}
                    /\ Cardinality({ j \in 1..Len(scanned) : scanned[j].key = u }) = 1
                    /\ DictGet(scanned, u).id \in met \ gone

\* the scan returned after it met three announcements of one URL
C7_Witness == ScanReturned /\ pc = "stale" /\ Met("u1") = 3

\* C8: no step removes or alters a message of the channel that is not an
\* announcement by the bot: such a message is in the channel after the step
\* as it was before.
C8_OnlyOwnAnnouncements ==
    [][\A i \in 1..Len(channel) :
         ~IsAnnouncement(channel[i]) =>
             \E j \in 1..Len(channel') : channel'[j] = channel[i]]_vars

\* a delete was carried out in a channel that holds a message with one
\* embed that is not an announcement by the bot
C8_Witness ==
    /\ \E k \in 1..Len(ops) : ops[k].op = "delete" /\ ops[k].ok
    /\ \E i \in 1..Len(channel) :
         ~IsAnnouncement(channel[i]) /\ Len(channel[i].embeds) = 1

\* the value the embed of the compared message stores under a field name:
\* that of its last field of the name, None when it has none
Stored(name) ==
    LET fields == messages[1].value.embeds[1].fields
        at == { i \in 1..Len(fields) : fields[i].name = name }
    IN  IF at = {} THEN None
        ELSE fields[CHOOSE i \in at : \A j \in at : j <= i].value

\* C9: contents_changed returns False exactly when the record's game,
\* stripped, equals the stored Game field as it is and the record's status,
\* stripped, equals the stored Stream Title field as it is, a missing field
\* being a None that equals no string; game " G " against stored "G" is
\* unchanged, game "" against no Game field is changed.
C9_ChangeDetection ==
    pc = "compared" =>
        LET record == records[1].value IN
        /\ (changed = FALSE) <=>
               /\ Strip(record.game) = Stored("Game")
               /\ Strip(record.status) = Stored("Stream Title")
        /\ (/\ record.game = <<" ","G"," ">>
            /\ Stored("Game") = <<"G">>
            /\ Strip(record.status) = Stored("Stream Title")) => ~changed
        /\ (record.game = <<>> /\ Stored("Game") = None) => changed

\* the call was made for game " G " against a stored "G" and reported no change
C9_Witness ==
    /\ pc = "compared"
    /\ records[1].value.game = <<" ","G"," ">>
    /\ Stored("Game") = <<"G">>
    /\ ~changed

\* the latest iteration was cut short by a missing channel, a channel that is
\* no text channel or an API response with a status other than 200
Aborted ==
    /\ pc = "idle"
    /\ cycles >= 1
    /\ lookup \in {"none", "voice"} \/ respClass = "bad_status"

\* C10: an iteration cut short by a missing channel, a channel that is no
\* text channel or a non-200 API response leaves the loop task running, and
\* the next iteration is eventually started (as long as the model explores a
\* next one).
C10_AbortedCycleOnly ==
    /\ [](Aborted => task = "sleeping")
    /\ \A n \in 1..(MaxCycles - 1) : (Aborted /\ cycles = n) ~> (cycles > n)

\* the second iteration is under way after a first one that was cut short
C10_Witness ==
    /\ cycles = 2
    /\ ~prevCompleted
    /\ pc = "fetch"

\* a write of the current iteration was rejected by the platform
Rejected == \E k \in 1..Len(ops) : ~ops[k].ok

\* C11: an iteration ended by a parse error on a malformed API element or by
\* a create, edit or delete the platform rejected leaves the loop task
\* running, so that later iterations are started.
C11_ErrorsLocal ==
    (pc = "idle" /\ cycles >= 1 /\ (respClass = "missing_field" \/ Rejected))
        => task = "sleeping"

\* C12: no iteration starts and no lookup, fetch, scan or write happens
\* before the connection has signalled ready; the loop waits for the signal
\* once, before its first iteration, and never returns to that wait.
C12_ReadyGate ==
    /\ []((cycles >= 1 \/ pc # "idle" \/ ops # <<>> \/ lookup # "unset"
             \/ respClass # "unset" \/ task # "before_loop") => ready)
    /\ [][cycles' > cycles => (ready /\ task = "sleeping")]_vars
    /\ [][task # "before_loop" => task' # "before_loop"]_vars

\* the second iteration has fetched and is about to scan
C12_Witness ==
    /\ cycles = 2
    /\ ready
    /\ pc = "scan"

\* C13: an iteration starts only while no iteration is running, however many
\* steps the one before took; while one is running the loop task is inside
\* it.
C13_SingleCycle ==
    /\ [](pc # "idle" => task = "running")
    /\ [][cycles' # cycles => (pc = "idle" /\ task = "sleeping"
                                /\ cycles' = cycles + 1)]_vars

\* the second iteration started after a first one that went through its
\* records loop and its final loop
C13_Witness ==
    /\ cycles = 2
    /\ prevCompleted
    /\ prevRecords # <<>>
    /\ Len(startChannel) >= 2
    /\ pc = "fetch"

\* C14: whatever the number of messages of the channel, every announcement
\* that was in it when the iteration started is, once the scan has returned,
\* either a message of the returned mapping or one the scan deleted.
C14_ScanCoversChannel ==
    ScanReturned =>
        \A i \in 1..Len(startChannel) :
            IsAnnouncement(startChannel[i]) =>
                \/ \E j \in 1..Len(scanned) :
                       scanned[j].value.id = startChannel[i].id
                \/ \E k \in 1..Len(ops) :
                       /\ ops[k].by = "scan"
                       /\ ops[k].op = "delete"
                       /\ ops[k].target = startChannel[i].id

\* C15: when the scan met several announcements of one URL, the returned
\* mapping holds the one it met last, every one it met before is deleted by
\* the scan and gone from the channel as soon as the scan has returned, and
\* every delete of the scan precedes every write of syncer's loops.
C15_LastKeptEarlierDeleted ==
    /\ ScanReturned =>
           \A u \in {"u1", "u2", "Empty"} :
               Met(u) >= 2 =>
                   LET hist == History(startChannel)
                       at   == AnnouncementsFor(hist, u)
                       last == CHOOSE i \in at : \A j \in at : j <= i
                   IN  /\ DictGet(scanned, u).id = hist[last].id
                       /\ \A i \in at \ {last} :
                            /\ \E k \in ScanDeletes(u) :
                                   ops[k].target = hist[i].id /\ ops[k].ok
                            /\ hist[i].id \notin Ids(channel)
    /\ \A k \in 1..Len(ops), l \in 1..Len(ops) :
           (ops[k].by = "scan" /\ ops[l].by = "syncer") => k < l

\* an iteration ran to its end whose scan met three announcements of one URL
\* and whose loops wrote after the scan
C15_Witness ==
    /\ outcome = "completed"
    /\ Met("u1") = 3
    /\ \E k \in 1..Len(ops) : ops[k].by = "syncer"

\* C16: an API array whose elements all carry the seven fields, some with
\* further fields, is parsed into records and the iteration goes on to the
\* scan; only an element with a missing field ends an iteration by a parse
\* error.
C16_ExtraFieldsIgnored ==
    /\ respClass = "extra_field" => (outcome # "parse_error" /\ records # <<>>)
    /\ outcome = "parse_error" => respClass = "missing_field"

\* C17: a write the platform rejected is the last write of its iteration and
\* the iteration has ended; the records after the one at hand got no create
\* and no edit, and the messages the final loop had not reached are still in
\* the channel.
C17_RejectedWriteAbandonsCycle ==
    Rejected =>
        LET failing == ops[Len(ops)] IN
        /\ ~failing.ok
        /\ \A k \in 1..(Len(ops) - 1) : ops[k].ok
        /\ pc = "idle"
        /\ (failing.by = "syncer" /\ failing.op # "delete") =>
               /\ \A i \in (ri + 1)..Len(records) :
                      \A k \in 1..Len(ops) :
                          ~(ops[k].by = "syncer" /\ ops[k].url = records[i].key)
               /\ \A j \in 1..Len(messages) :
                      messages[j].value.id \in Ids(channel)
        /\ (failing.by = "syncer" /\ failing.op = "delete") =>
               \A j \in si..Len(messages) : messages[j].value.id \in Ids(channel)

\* the create for the first of two records was rejected while the mapping
\* held a message
C17_Witness ==
    /\ Rejected
    /\ ops[Len(ops)].by = "syncer"
    /\ ops[Len(ops)].op = "create"
    /\ ri < Len(records)
    /\ messages # <<>>

\* the messages of the scanned history that a call of channel.send with the
\* rendering of record r gives
RenderedIn(hist, r) ==
    { i \in 1..Len(hist) :
        hist[i].author = "bot" /\ hist[i].embeds = <<to_embed(r)>> }

\* C18: a message by the bot whose payload is the rendering of a record,
\* whatever the user name, the empty one included, passes the filters of the
\* scan that iterates over it: the returned mapping has an entry under the
\* record's URL whose message carries that URL, and the message is that
\* entry or a duplicate the scan deleted; a record whose URL has such a
\* message gets no create from the records loop.
C18_RenderScanRoundTrip ==
    ScanReturned =>
        LET hist == History(startChannel) IN
        /\ \A r \in WellFormedElems :
             \A i \in RenderedIn(hist, r) :
                 /\ IsAnnouncement(hist[i])
                 /\ HasKey(scanned, r.url)
                 /\ DictGet(scanned, r.url).embeds[1].author_url = r.url
                 /\ \/ DictGet(scanned, r.url).id = hist[i].id
                    \/ \E k \in ScanDeletes(r.url) : ops[k].target = hist[i].id
        /\ \A j \in 1..Len(records) :
             (\E r \in WellFormedElems :
                  r.url = records[j].key /\ RenderedIn(hist, r) # {}) =>
                 \A k \in 1..Len(ops) :
                     ~(ops[k].op = "create" /\ ops[k].url = records[j].key)

\* the second iteration ran to its end with the record of the empty user
\* name, whose message the first iteration had posted after the 101 messages
\* the channel started with
C18_Witness ==
    /\ cycles = 2
    /\ outcome = "completed"
    /\ Len(startChannel) = HistoryLimit + 2
    /\ startChannel[Len(startChannel)].embeds
           = <<to_embed(Rec("u2", <<>>, <<"G">>, <<"S">>))>>
    /\ HasKey(records, "u2")
    /\ DictGet(scanned, "u2").id = startChannel[Len(startChannel)].id

\* the compared message carries the rendering of the compared record
FreshlyRendered ==
    /\ pc = "compared"
    /\ messages[1].value.embeds = <<to_embed(records[1].value)>>

\* C19: contents_changed reports a message whose single embed is the
\* rendering of a record as unchanged against that record, whatever the
\* whitespace around the record's game and status.
C19_RenderCompareRoundTrip ==
    FreshlyRendered => ~changed

\* C19 as amended: a message whose single embed is the rendering of a record
\* is reported unchanged against that record exactly when neither the game
\* nor the status of the record has leading or trailing whitespace.
C19_RenderCompareTrimmed ==
    FreshlyRendered =>
        LET record == records[1].value IN
        (~changed) <=> (Strip(record.game) = record.game
                          /\ Strip(record.status) = record.status)

\* the rendering of a record with game " G " was compared with the record
\* and reported changed
C19_Witness ==
    /\ FreshlyRendered
    /\ records[1].value.game = <<" ","G"," ">>
    /\ records[1].value.status = <<"G">>
    /\ changed

====
